---- MODULE Spec2Model ----
(***************************************************************************)
(* A model of app.py: the cleaning pipeline clean_eda_df, the five cached  *)
(* loaders (load_yearly_counts, load_monthly_counts, load_top_types,       *)
(* load_map_sample, load_year_type_counts), the query strings they build   *)
(* and the st.cache_data memoisation around them.                          *)
(*                                                                         *)
(* Text is modelled as TLA+ strings handled character by character.        *)
(* Floating-point coordinates are fixed-point integers in hundredths       *)
(* (41.0 is 4100); coordinate texts of the model carry at most two         *)
(* fractional digits.                                                      *)
(***************************************************************************)
EXTENDS Integers, Sequences, FiniteSets, TLC

VARIABLES
    pandas,     \* major version of the pandas build the app runs on
    raw,        \* clean_eda_df: the table handed to it
    out,        \* clean_eda_df(raw)
    out2,       \* clean_eda_df(clean_eda_df(raw))
    mapOut,     \* load_map_sample's post-processing of clean_eda_df(raw)
    cpc,        \* position of the cleaning run
    server,     \* the remote endpoint's data: what its replies are computed from
    cache,      \* st.cache_data: key -> stored return value
    pc,         \* position of the running loader ("idle" when none runs)
    cur,        \* the running loader's recipe and arguments
    loc,        \* the running loader's local variables
    reqLog,     \* requests issued by the current (or last) invocation
    ret,        \* what the last invocation gave its caller
    runs,       \* key -> number of times the loader's body ran to its return
    lastErr,    \* the last error the fetcher raised
    budget      \* invocations the session may still start

vars == <<pandas, raw, out, out2, mapOut, cpc, server, cache, pc, cur, loc,
          reqLog, ret, runs, lastErr, budget>>

cleanVars == <<pandas, raw, out, out2, mapOut, cpc>>
sessionVars == <<server, cache, pc, cur, loc, reqLog, ret, runs, lastErr, budget>>

(***************************************************************************)
(* Text                                                                    *)
(***************************************************************************)
Ch(s, i) == SubSeq(s, i, i)

Digits == {"0", "1", "2", "3", "4", "5", "6", "7", "8", "9"}

DigitVal(c) ==
    CASE c = "0" -> 0 [] c = "1" -> 1 [] c = "2" -> 2 [] c = "3" -> 3
      [] c = "4" -> 4 [] c = "5" -> 5 [] c = "6" -> 6 [] c = "7" -> 7
      [] c = "8" -> 8 [] c = "9" -> 9

AllDigits(s) == Len(s) > 0 /\ \A i \in 1..Len(s) : Ch(s, i) \in Digits

RECURSIVE ParseNat(_)
ParseNat(s) ==
    IF Len(s) = 0 THEN 0
    ELSE 10 * ParseNat(SubSeq(s, 1, Len(s) - 1)) + DigitVal(Ch(s, Len(s)))

\* str.format of an integer: {n} and {n:02d}
Fmt(n) == ToString(n)
Fmt02(n) == IF n < 10 THEN "0" \o ToString(n) ELSE ToString(n)

LowerCs == "abcdefghijklmnopqrstuvwxyz"
UpperCs == "ABCDEFGHIJKLMNOPQRSTUVWXYZ"

LowerSet == {Ch(LowerCs, i) : i \in 1..Len(LowerCs)}

UpperChar(c) ==
    IF c \in LowerSet
    THEN Ch(UpperCs, CHOOSE i \in 1..Len(LowerCs) : Ch(LowerCs, i) = c)
    ELSE c

\* a character-wise map, by halves
RECURSIVE StrUpper(_)
StrUpper(s) ==
    IF Len(s) = 0 THEN ""
    ELSE IF Len(s) = 1 THEN UpperChar(s)
    ELSE StrUpper(SubSeq(s, 1, Len(s) \div 2)) \o StrUpper(SubSeq(s, Len(s) \div 2 + 1, Len(s)))

IsSpace(c) == c \in {" ", "\t", "\n"}

RECURSIVE LStrip(_)
LStrip(s) == IF Len(s) > 0 /\ IsSpace(Head(s)) THEN LStrip(Tail(s)) ELSE s

RECURSIVE RStrip(_)
RStrip(s) ==
    IF Len(s) > 0 /\ IsSpace(Ch(s, Len(s))) THEN RStrip(SubSeq(s, 1, Len(s) - 1)) ELSE s

StrStrip(s) == RStrip(LStrip(s))

\* t occurs in s as a substring
Contains(s, t) ==
    \E i \in 1..(Len(s) - Len(t) + 1) : SubSeq(s, i, i + Len(t) - 1) = t

(***************************************************************************)
(* Cells of a DataFrame                                                    *)
(***************************************************************************)
Str(s) == [k |-> "str", s |-> s, n |-> 0]
IntC(n) == [k |-> "int", s |-> "", n |-> n]
Num(n) == [k |-> "num", s |-> "", n |-> n]      \* a float, in hundredths
Ts(s)  == [k |-> "ts",  s |-> s,  n |-> 0]      \* a Timestamp, in ISO form
NaN    == [k |-> "nan", s |-> "", n |-> 0]      \* numpy.nan
NaT    == [k |-> "nat", s |-> "", n |-> 0]      \* pandas.NaT
NA     == [k |-> "NA",  s |-> "", n |-> 0]      \* pandas.NA

IsNull(c) == c.k \in {"nan", "nat", "NA"}

(***************************************************************************)
(* pd.to_datetime(..., errors="coerce") and the .dt accessors              *)
(***************************************************************************)
IsLeap(y) == (y % 4 = 0 /\ y % 100 # 0) \/ y % 400 = 0

DaysIn(y, m) ==
    IF m = 2 THEN (IF IsLeap(y) THEN 29 ELSE 28)
    ELSE IF m \in {4, 6, 9, 11} THEN 30 ELSE 31

\* the fields of an ISO text YYYY-MM-DDTHH:MM:SS[.fff]
TsYear(s)   == ParseNat(SubSeq(s, 1, 4))
TsMonth(s)  == ParseNat(SubSeq(s, 6, 7))
TsDay(s)    == ParseNat(SubSeq(s, 9, 10))
TsHour(s)   == ParseNat(SubSeq(s, 12, 13))
TsMinute(s) == ParseNat(SubSeq(s, 15, 16))
TsSecond(s) == ParseNat(SubSeq(s, 18, 19))
TsMilli(s)  == IF Len(s) = 23 THEN ParseNat(SubSeq(s, 21, 23)) ELSE 0

IsIsoText(s) ==
    /\ Len(s) \in {19, 23}
    /\ AllDigits(SubSeq(s, 1, 4)) /\ Ch(s, 5) = "-"
    /\ AllDigits(SubSeq(s, 6, 7)) /\ Ch(s, 8) = "-"
    /\ AllDigits(SubSeq(s, 9, 10)) /\ Ch(s, 11) = "T"
    /\ AllDigits(SubSeq(s, 12, 13)) /\ Ch(s, 14) = ":"
    /\ AllDigits(SubSeq(s, 15, 16)) /\ Ch(s, 17) = ":"
    /\ AllDigits(SubSeq(s, 18, 19))
    /\ (Len(s) = 23 => Ch(s, 20) = "." /\ AllDigits(SubSeq(s, 21, 23)))
    /\ TsMonth(s) \in 1..12
    /\ TsDay(s) \in 1..DaysIn(TsYear(s), TsMonth(s))
    /\ TsHour(s) < 24 /\ TsMinute(s) < 60 /\ TsSecond(s) < 60

\* a Timestamp is kept in the 23-character form
ToDatetime(c) ==
    IF c.k = "ts" THEN c
    ELSE IF c.k = "str" /\ IsIsoText(c.s)
         THEN Ts(IF Len(c.s) = 19 THEN c.s \o ".000" ELSE c.s)
         ELSE NaT

\* Series.dt.dayofweek: Monday is 0
DayOfWeek(s) ==
    LET m == TsMonth(s)
        y == IF m < 3 THEN TsYear(s) - 1 ELSE TsYear(s)
        t == <<0, 3, 2, 5, 0, 3, 5, 1, 4, 6, 2, 4>>
        sun0 == (y + y \div 4 - y \div 100 + y \div 400 + t[m] + TsDay(s)) % 7
    IN  (sun0 + 6) % 7

(***************************************************************************)
(* pd.to_numeric(..., errors="coerce")                                     *)
(***************************************************************************)
\* 10^n for the fractional digits the fixed-point form keeps (two)
Pow10(n) == IF n = 0 THEN 1 ELSE IF n = 1 THEN 10 ELSE 100

\* [sign] digits [. digits], the value in hundredths; anything else is NaN
IsDecimalText(s) ==
    LET body == IF Len(s) > 0 /\ Head(s) \in {"-", "+"} THEN Tail(s) ELSE s
        dots == {i \in 1..Len(body) : Ch(body, i) = "."}
    IN  /\ Len(body) > 0
        /\ Cardinality(dots) <= 1
        /\ IF dots = {} THEN AllDigits(body)
           ELSE LET d == CHOOSE i \in dots : TRUE
                IN  /\ AllDigits(SubSeq(body, 1, d - 1))
                    /\ AllDigits(SubSeq(body, d + 1, Len(body)))
                    /\ Len(body) - d <= 2

DecimalValue(s) ==
    LET neg  == Head(s) = "-"
        body == IF Head(s) \in {"-", "+"} THEN Tail(s) ELSE s
        dots == {i \in 1..Len(body) : Ch(body, i) = "."}
        d    == IF dots = {} THEN Len(body) + 1 ELSE CHOOSE i \in dots : TRUE
        frac == SubSeq(body, d + 1, Len(body))
        mag  == ParseNat(SubSeq(body, 1, d - 1)) * Pow10(2)
                + ParseNat(frac) * Pow10(2 - Len(frac))
    IN  IF neg THEN 0 - mag ELSE mag

ToNumeric(c) ==
    IF c.k = "num" THEN c
    ELSE IF c.k = "int" THEN Num(c.n * Pow10(2))
    ELSE IF c.k = "str" /\ IsDecimalText(c.s) THEN Num(DecimalValue(c.s))
    ELSE NaN

(***************************************************************************)
(* DataFrames: the set of column names and the sequence of rows, each row  *)
(* a function from the columns to cells.                                   *)
(***************************************************************************)
\* df[col] = vals, with vals[i] the new cell of row i
SetCol(df, col, vals) ==
    [cols |-> df.cols \cup {col},
     rows |-> [i \in 1..Len(df.rows) |->
                 [c \in df.cols \cup {col} |->
                     IF c = col THEN vals[i] ELSE df.rows[i][c]]]]

\* the row labels of a table
Rows(df) == 1..Len(df.rows)

\* DataFrame.dropna(subset=cols)
DropNa(df, subset) ==
    [df EXCEPT !.rows = SelectSeq(df.rows, LAMBDA r : \A c \in subset : ~IsNull(r[c]))]

RECURSIVE KeepFirst(_, _, _)
KeepFirst(rows, col, seen) ==
    IF rows = <<>> THEN <<>>
    ELSE IF Head(rows)[col] \in seen THEN KeepFirst(Tail(rows), col, seen)
    ELSE <<Head(rows)>> \o KeepFirst(Tail(rows), col, seen \cup {Head(rows)[col]})

\* drop_duplicates with keep="last" in place of the default
DropDuplicatesLast(df, col) ==
    LET last == SelectSeq([i \in 1..Len(df.rows) |-> i],
                          LAMBDA i : \A j \in (i + 1)..Len(df.rows) :
                                        df.rows[j][col] # df.rows[i][col])
    IN  [df EXCEPT !.rows = [k \in 1..Len(last) |-> df.rows[last[k]]]]

\* DataFrame.drop_duplicates(subset=[col]): keep="first"
DropDuplicates(df, col) == [df EXCEPT !.rows = KeepFirst(df.rows, col, {})]

\* DataFrame.rename(columns={old: new})
Rename(df, old, new) ==
    LET from(c) == IF c = new THEN old ELSE c
    IN  [cols |-> (df.cols \ {old}) \cup {new},
         rows |-> [i \in 1..Len(df.rows) |->
                     [c \in (df.cols \ {old}) \cup {new} |-> df.rows[i][from(c)]]]]

(***************************************************************************)
(* clean_eda_df                                                            *)
(***************************************************************************)
LAT_MIN == 4100
LAT_MAX == 4220
LON_MIN == -8850
LON_MAX == -8700

\* Series.between(lo, hi): inclusive on both sides, False for NaN
Between(c, lo, hi) == c.k = "num" /\ lo <= c.n /\ c.n <= hi

\* Series.astype(str): pandas 2 stringifies missing values, pandas 3 keeps them
AstypeStr(c) ==
    IF c.k = "str" THEN c
    ELSE IF IsNull(c) THEN
        (IF pandas >= 3 THEN NaN
         ELSE IF c.k = "NA" THEN Str("<NA>")
         ELSE IF c.k = "nat" THEN Str("NaT") ELSE Str("nan"))
    ELSE IF c.k = "ts" THEN Str(c.s)
    ELSE Str(ToString(c.n))

\* Series.str.strip() and Series.str.upper(): a missing value stays missing
StripCell(c) == IF c.k = "str" THEN Str(StrStrip(c.s)) ELSE c
UpperCell(c) == IF c.k = "str" THEN Str(StrUpper(c.s)) ELSE c

Sentinels == {"", "NONE", "NAN"}

\* what df.loc[mask, col] = pd.NA stores: the str dtype of pandas 3 holds NaN
Absent == IF pandas >= 3 THEN NaN ELSE NA

NormType(c) ==
    LET u == UpperCell(StripCell(AstypeStr(c)))
    IN  IF u.k = "str" /\ u.s \in Sentinels THEN Absent ELSE u

ParseDates(df) ==
    DropNa(SetCol(df, "date", [i \in Rows(df) |-> ToDatetime(df.rows[i]["date"])]), {"date"})

AddCalendar(df) ==
    LET y == SetCol(df, "year",  [i \in Rows(df) |-> IntC(TsYear(df.rows[i]["date"].s))])
        m == SetCol(y,  "month", [i \in Rows(df) |-> IntC(TsMonth(df.rows[i]["date"].s))])
        h == SetCol(m,  "hour",  [i \in Rows(df) |-> IntC(TsHour(df.rows[i]["date"].s))])
    IN  SetCol(h, "dow", [i \in Rows(df) |-> IntC(DayOfWeek(df.rows[i]["date"].s))])

CleanType(df) ==
    IF "primary_type" \in df.cols
    THEN SetCol(df, "primary_type", [i \in Rows(df) |-> NormType(df.rows[i]["primary_type"])])
    ELSE df

\* the box filter with the longitude test left out
InBoxLatOnly(r) == Between(r["latitude"], LAT_MIN, LAT_MAX)

InBox(r) ==
    /\ Between(r["latitude"], LAT_MIN, LAT_MAX)
    /\ Between(r["longitude"], LON_MIN, LON_MAX)

CleanCoords(df) ==
    IF "latitude" \in df.cols /\ "longitude" \in df.cols
    THEN LET la == SetCol(df, "latitude",  [i \in Rows(df) |-> ToNumeric(df.rows[i]["latitude"])])
             lo == SetCol(la, "longitude", [i \in Rows(df) |-> ToNumeric(df.rows[i]["longitude"])])
         IN  [lo EXCEPT !.rows = SelectSeq(lo.rows, InBox)]
    ELSE df

Dedup(df) == IF "id" \in df.cols THEN DropDuplicates(df, "id") ELSE df

clean_eda_df(df) == Dedup(CleanCoords(CleanType(AddCalendar(ParseDates(df)))))

\* load_map_sample after the fetch: clean, coerce, dropna, rename
MapPost(df) ==
    LET c  == clean_eda_df(df)
        la == SetCol(c,  "latitude",  [i \in Rows(c) |-> ToNumeric(c.rows[i]["latitude"])])
        lo == SetCol(la, "longitude", [i \in Rows(c) |-> ToNumeric(c.rows[i]["longitude"])])
        d  == DropNa(lo, {"latitude", "longitude"})
    IN  Rename(Rename(d, "latitude", "lat"), "longitude", "lon")

(***************************************************************************)
(* The session's state when no loader has been called                      *)
(***************************************************************************)
NoDf == [cols |-> {}, rows |-> <<>>]
NoVal == [df |-> NoDf, counts |-> <<>>, url |-> ""]
NoRet == [kind |-> "none", key |-> <<>>, hit |-> FALSE, val |-> NoVal, exc |-> ""]
NoServer == [stamps |-> {}, types |-> <<>>, trend |-> <<>>, points |-> <<>>]
NoLoc == [i |-> 0, counts |-> <<>>, top_types |-> <<>>, url_top |-> ""]

SessionStart(n, sv) ==
    /\ server = sv
    /\ cache = <<>>
    /\ pc = "idle"
    /\ cur = <<>>
    /\ loc = NoLoc
    /\ reqLog = <<>>
    /\ ret = NoRet
    /\ runs = <<>>
    /\ lastErr = ""
    /\ budget = n

(***************************************************************************)
(* Cleaning runs: a raw table is cleaned, cleaned again, and put through   *)
(* load_map_sample's post-processing.                                      *)
(***************************************************************************)
MaxRows == 2

PandasMajors == {2, 3}

OptionalCols == {"id", "primary_type", "latitude", "longitude"}

MkRow(id, date, type, lat, lon) ==
    [c \in OptionalCols \cup {"date"} |->
        CASE c = "id" -> id [] c = "date" -> date [] c = "primary_type" -> type
          [] c = "latitude" -> lat [] c = "longitude" -> lon]

RawIds == {IntC(1), IntC(2)}

GoodDate == Str("2021-06-15T10:00:00")
Theft    == Str(" theft ")
LatIn    == Str("41.0")
LonIn    == Str("-87.65")

\* <<date, primary_type, latitude, longitude>>: a well-formed row, and rows
\* that differ from it in one cell
RawVariants ==
    { <<GoodDate,   Theft,       LatIn,       LonIn>>,
      <<Str("n/a"), Theft,       LatIn,       LonIn>>,
      <<GoodDate,   Str("none"), LatIn,       LonIn>>,
      <<GoodDate,   NaN,         LatIn,       LonIn>>,
      <<GoodDate,   Theft,       Str("42.3"), LonIn>>,
      <<GoodDate,   Theft,       Str("x"),    LonIn>>,
      <<GoodDate,   Theft,       LatIn,       Str("-88.6")>> }

FullRows == {MkRow(i, v[1], v[2], v[3], v[4]) : i \in RawIds, v \in RawVariants}

RawRows(cols) == {[c \in cols |-> r[c]] : r \in FullRows}

ColSets == {o \cup {"date"} : o \in SUBSET OptionalCols}

RawTables ==
    UNION {LET rows == RawRows(cols)
           IN  UNION {{[cols |-> cols, rows |-> rs] : rs \in [1..n -> rows]}
                      : n \in 0..MaxRows}
           : cols \in ColSets}

InitClean ==
    /\ pandas \in PandasMajors
    /\ raw \in RawTables
    /\ out = NoDf /\ out2 = NoDf /\ mapOut = [exc |-> "", df |-> NoDf]
    /\ cpc = "raw"
    /\ SessionStart(0, NoServer)

Clean ==
    /\ cpc = "raw"
    /\ out' = clean_eda_df(raw)
    /\ cpc' = "clean"
    /\ UNCHANGED <<pandas, raw, out2, mapOut>>
    /\ UNCHANGED sessionVars

CleanAgain ==
    /\ cpc = "clean"
    /\ out2' = clean_eda_df(out)
    /\ cpc' = "twice"
    /\ UNCHANGED <<pandas, raw, out, mapOut>>
    /\ UNCHANGED sessionVars

\* lines 108-112 on a table that lacks a coordinate column raise KeyError
MapClean ==
    /\ cpc = "raw"
    /\ mapOut' = IF {"latitude", "longitude"} \subseteq raw.cols
                 THEN [exc |-> "", df |-> MapPost(raw)]
                 ELSE [exc |-> "KeyError", df |-> NoDf]
    /\ cpc' = "map"
    /\ UNCHANGED <<pandas, raw, out, out2>>
    /\ UNCHANGED sessionVars

NextClean == Clean \/ CleanAgain \/ MapClean

SpecClean == InitClean /\ [][NextClean]_vars

(***************************************************************************)
(* Properties of clean_eda_df                                              *)
(***************************************************************************)
Cleaned == cpc \in {"clean", "twice"}

Min(S) == CHOOSE x \in S : \A y \in S : x <= y

\* the rows of raw that carry identifier v, and the records of out that do
Occ(v) == {i \in 1..Len(raw.rows) : raw.rows[i]["id"] = v}
OutWith(v) == {j \in 1..Len(out.rows) : out.rows[j]["id"] = v}
DupIds == {v \in RawIds : Cardinality(Occ(v)) >= 2}

\* clean_eda_df of row i of raw alone: one record, or none when it is dropped
Alone(i) == clean_eda_df([cols |-> raw.cols, rows |-> <<raw.rows[i]>>]).rows
Survivors(v) == {i \in Occ(v) : Alone(i) # <<>>}

\* C2 as stated: an identifier that occurs twice or more in a raw table with an
\* id column yields exactly one record, the cleaned first occurrence, whatever
\* the date and coordinates of that first occurrence.
C2_FirstOccurrenceKept ==
    (Cleaned /\ "id" \in raw.cols) =>
        \A v \in DupIds :
            /\ Cardinality(OutWith(v)) = 1
            /\ \A j \in OutWith(v) : Alone(Min(Occ(v))) = <<out.rows[j]>>

\* C2 amended: an identifier that occurs twice or more yields no record when
\* every occurrence is dropped by date parsing or the box filter, and otherwise
\* exactly one, the cleaned form of the first occurrence that survives them.
C2_FirstSurvivorKept ==
    (Cleaned /\ "id" \in raw.cols) =>
        \A v \in DupIds :
            IF Survivors(v) = {} THEN OutWith(v) = {}
            ELSE /\ Cardinality(OutWith(v)) = 1
                 /\ \A j \in OutWith(v) : Alone(Min(Survivors(v))) = <<out.rows[j]>>

\* two occurrences of one identifier that both survive date parsing and the
\* box filter and differ in another field; the cleaned table holds one of them
C2_Witness ==
    /\ cpc = "clean" /\ "id" \in raw.cols
    /\ \E v \in DupIds :
        /\ \E i, k \in Survivors(v) : i < k /\ Alone(i) # Alone(k)
        /\ Cardinality(OutWith(v)) = 1

HasCoords(df) == {"latitude", "longitude"} \subseteq df.cols

\* rows of raw that date parsing keeps and whose coerced coordinates are in the box
RawInBox ==
    {i \in 1..Len(raw.rows) :
        /\ ToDatetime(raw.rows[i]["date"]) # NaT
        /\ Between(ToNumeric(raw.rows[i]["latitude"]), LAT_MIN, LAT_MAX)
        /\ Between(ToNumeric(raw.rows[i]["longitude"]), LON_MIN, LON_MAX)}

\* C3: when raw has both coordinate columns, every record of clean_eda_df and
\* every point of load_map_sample lies in [41.0, 42.2] x [-88.5, -87.0] and
\* carries the coerced coordinates of a raw row that lies in the box: no row
\* outside the box or with an uncoercible coordinate is kept or clamped.
C3_BoundingBox ==
    /\ (Cleaned /\ HasCoords(raw)) =>
        /\ \A j \in 1..Len(out.rows) :
            /\ Between(out.rows[j]["latitude"], LAT_MIN, LAT_MAX)
            /\ Between(out.rows[j]["longitude"], LON_MIN, LON_MAX)
            /\ \E i \in RawInBox :
                /\ ToNumeric(raw.rows[i]["latitude"]) = out.rows[j]["latitude"]
                /\ ToNumeric(raw.rows[i]["longitude"]) = out.rows[j]["longitude"]
        /\ Len(out.rows) <= Cardinality(RawInBox)
    /\ (cpc = "map" /\ mapOut.exc = "") =>
        /\ \A j \in 1..Len(mapOut.df.rows) :
            /\ Between(mapOut.df.rows[j]["lat"], LAT_MIN, LAT_MAX)
            /\ Between(mapOut.df.rows[j]["lon"], LON_MIN, LON_MAX)
        /\ Len(mapOut.df.rows) <= Cardinality(RawInBox)

\* a point on the box's edge is kept beside a row dropped for its longitude
C3_Witness ==
    /\ cpc = "map" /\ mapOut.exc = ""
    /\ Len(mapOut.df.rows) = 1
    /\ mapOut.df.rows[1]["lat"] = Num(LAT_MIN)
    /\ \E i \in 1..Len(raw.rows) :
        /\ ToDatetime(raw.rows[i]["date"]) # NaT
        /\ Between(ToNumeric(raw.rows[i]["latitude"]), LAT_MIN, LAT_MAX)
        /\ ~Between(ToNumeric(raw.rows[i]["longitude"]), LON_MIN, LON_MAX)

\* C4: cleaning the cleaned table again changes nothing.
C4_Idempotent == cpc = "twice" => out2 = out

(***************************************************************************)
(* Query construction                                                      *)
(***************************************************************************)
BASE_URL == "https://data.cityofchicago.org/resource/ijzp-q8t2.csv"
START_YEAR == 2018
END_YEAR == 2024

SafeChars == "abcdefghijklmnopqrstuvwxyzABCDEFGHIJKLMNOPQRSTUVWXYZ0123456789_.-~"

\* urllib.parse.quote_plus of one character (the characters the queries use)
SafeSet == {Ch(SafeChars, i) : i \in 1..Len(SafeChars)}

QuoteChar(c) ==
    IF c \in SafeSet THEN c
    ELSE CASE c = " " -> "+"   [] c = "$" -> "%24" [] c = "&" -> "%26"
           [] c = "'" -> "%27" [] c = "(" -> "%28" [] c = ")" -> "%29"
           [] c = "*" -> "%2A" [] c = "," -> "%2C" [] c = "/" -> "%2F"
           [] c = ":" -> "%3A" [] c = "<" -> "%3C" [] c = "=" -> "%3D"
           [] c = ">" -> "%3E" [] OTHER -> c

RECURSIVE QuotePlus(_)
QuotePlus(s) ==
    IF Len(s) = 0 THEN ""
    ELSE IF Len(s) = 1 THEN QuoteChar(s)
    ELSE QuotePlus(SubSeq(s, 1, Len(s) \div 2)) \o QuotePlus(SubSeq(s, Len(s) \div 2 + 1, Len(s)))

\* urllib.parse.urlencode of a dict, as the sequence of its <<key, value>> items
RECURSIVE UrlEncode(_)
UrlEncode(params) ==
    IF params = <<>> THEN ""
    ELSE QuotePlus(Head(params)[1]) \o "=" \o QuotePlus(Head(params)[2])
         \o (IF Len(params) > 1 THEN "&" ELSE "") \o UrlEncode(Tail(params))

build_url(params) == BASE_URL \o "?" \o UrlEncode(params)

HasParam(params, k) == \E i \in 1..Len(params) : params[i][1] = k
Param(params, k) == params[CHOOSE i \in 1..Len(params) : params[i][1] = k][2]

YearWindow(a, b) ==
    "date between '" \o Fmt(a) \o "-01-01T00:00:00' and '" \o Fmt(b) \o "-12-31T23:59:59'"

YearlyParams(y) ==
    << <<"$select", "count(*) as cnt">>,
       <<"$where", YearWindow(y, y)>> >>

MonthStart(year, m) == Fmt(year) \o "-" \o Fmt02(m) \o "-01T00:00:00"

MonthEnd(year, m) ==
    IF m = 12 THEN Fmt(year + 1) \o "-01-01T00:00:00"
    ELSE Fmt(year) \o "-" \o Fmt02(m + 1) \o "-01T00:00:00"

MonthlyParams(year, m) ==
    << <<"$select", "count(*) as cnt">>,
       <<"$where", "date >= '" \o MonthStart(year, m)
                   \o "' and date < '" \o MonthEnd(year, m) \o "'">> >>

TopParams(year, top_n) ==
    << <<"$select", "primary_type, count(*) as cnt">>,
       <<"$where", YearWindow(year, year)>>,
       <<"$group", "primary_type">>,
       <<"$order", "cnt desc">>,
       <<"$limit", Fmt(top_n)>> >>

MapParams(year, limit) ==
    << <<"$select", "date,primary_type,latitude,longitude">>,
       <<"$where", YearWindow(year, year)
                   \o " AND latitude IS NOT NULL AND longitude IS NOT NULL">>,
       <<"$order", "date desc">>,
       <<"$limit", Fmt(limit)>> >>

TrendTopParams(start_year, end_year, top_n) ==
    << <<"$select", "primary_type, count(*) as cnt">>,
       <<"$where", YearWindow(start_year, end_year)>>,
       <<"$group", "primary_type">>,
       <<"$order", "cnt DESC">>,
       <<"$limit", Fmt(top_n)>> >>

\* ", ".join([f"'{t}'" for t in top_types])
RECURSIVE TypeFilter(_)
TypeFilter(top_types) ==
    IF top_types = <<>> THEN ""
    ELSE "'" \o Head(top_types) \o "'"
         \o (IF Len(top_types) > 1 THEN ", " ELSE "") \o TypeFilter(Tail(top_types))

year_expr == "date_extract_y(date)"

\* the alias the $select clause gives year_expr
YearAlias == "year"

\* a $group clause that names the alias instead of the expression
TrendGroupByAlias == YearAlias \o ", primary_type"

TrendGroup == year_expr \o ", primary_type"

TrendParams(start_year, end_year, top_types) ==
    << <<"$select", year_expr \o " as " \o YearAlias \o ", primary_type, count(*) as cnt">>,
       <<"$where", YearWindow(start_year, end_year)
                   \o " AND primary_type IN (" \o TypeFilter(top_types) \o ")">>,
       <<"$group", TrendGroup>>,
       <<"$order", year_expr \o " ASC">> >>

Request(params) == [params |-> params, url |-> build_url(params)]

(***************************************************************************)
(* The remote endpoint: replies computed from its data                     *)
(***************************************************************************)
\* a predicate read as SoQL reads it: 'text' is a string literal, '' inside a
\* literal is a quote character; skel is the predicate with ? for each literal
NextQuote(s, i) ==
    LET qs == {j \in i..Len(s) : Ch(s, j) = "'"}
    IN  IF qs = {} THEN 0 ELSE CHOOSE j \in qs : \A k \in qs : j <= k

RECURSIVE ScanOut(_, _), ScanIn(_, _)
\* from position i, outside a literal
ScanOut(s, i) ==
    LET q == NextQuote(s, i)
    IN  IF q = 0 THEN [ok |-> TRUE, lits |-> <<>>, skel |-> SubSeq(s, i, Len(s))]
        ELSE LET r == ScanIn(s, q + 1)
             IN  [ok |-> r.ok, lits |-> r.lits, skel |-> SubSeq(s, i, q - 1) \o "?" \o r.skel]
\* from position i, inside a literal: lits[1] is the rest of that literal
ScanIn(s, i) ==
    LET q == NextQuote(s, i)
    IN  IF q = 0 THEN [ok |-> FALSE, lits |-> <<SubSeq(s, i, Len(s))>>, skel |-> ""]
        ELSE IF q < Len(s) /\ Ch(s, q + 1) = "'"
        THEN LET r == ScanIn(s, q + 2)
             IN  [r EXCEPT !.lits[1] = SubSeq(s, i, q) \o r.lits[1]]
        ELSE LET r == ScanOut(s, q + 1)
             IN  [r EXCEPT !.lits = <<SubSeq(s, i, q - 1)>> \o r.lits]

Scan(s) == ScanOut(s, 1)

TsKey(s) == <<TsYear(s), TsMonth(s), TsDay(s), TsHour(s), TsMinute(s), TsSecond(s), TsMilli(s)>>

RECURSIVE LexLess(_, _)
LexLess(a, b) ==
    IF a = <<>> THEN FALSE
    ELSE Head(a) < Head(b) \/ (Head(a) = Head(b) /\ LexLess(Tail(a), Tail(b)))

TsLess(a, b) == LexLess(TsKey(a), TsKey(b))
TsLeq(a, b) == ~TsLess(b, a)

\* does the row with timestamp t satisfy the date window of the predicate
InWindow(where, t) ==
    LET sc == Scan(where)
    IN  IF SubSeq(sc.skel, 1, 12) = "date between"
        THEN TsLeq(sc.lits[1], t) /\ TsLeq(t, sc.lits[2])
        ELSE TsLeq(sc.lits[1], t) /\ TsLess(t, sc.lits[2])

CountRows(where) == Cardinality({t \in server.stamps : InWindow(where, t)})

\* the cnt cell of a count(*) reply: the count, or a cell that is no number
CountReplies(req) == {Fmt(CountRows(Param(req.params, "$where"))), "abc"}

Limited(rows, req) ==
    IF HasParam(req.params, "$limit") /\ ParseNat(Param(req.params, "$limit")) < Len(rows)
    THEN SubSeq(rows, 1, ParseNat(Param(req.params, "$limit")))
    ELSE rows

TypesReply(req)  == [cols |-> {"primary_type", "cnt"}, rows |-> Limited(server.types, req)]
TrendReply(req)  == [cols |-> {"year", "primary_type", "cnt"}, rows |-> server.trend]
PointsReply(req) ==
    [cols |-> {"date", "primary_type", "latitude", "longitude"},
     rows |-> Limited(server.points, req)]

\* what pd.read_csv raises when the fetch fails
Errors == {"HTTPError", "ParserError"}

(***************************************************************************)
(* st.cache_data and the five loaders                                      *)
(***************************************************************************)
MakeKey(recipe, args) == <<recipe, args>>

\* a wrapper that never finds a stored value
CacheHitNever(key) == FALSE

CacheHit(key) == key \in DOMAIN cache

Val(df, counts, url) == [df |-> df, counts |-> counts, url |-> url]

Stored(key, val) == [k \in DOMAIN cache \cup {key} |-> IF k = key THEN val ELSE cache[k]]

Bump(key) ==
    [k \in DOMAIN runs \cup {key} |->
        IF k = key THEN (IF key \in DOMAIN runs THEN runs[key] + 1 ELSE 1) ELSE runs[k]]

\* the wrapper around a loader: a stored value is returned without running the
\* body; otherwise the body starts at its first statement
Cached(key, entry, i0) ==
    /\ pc = "idle" /\ budget > 0
    /\ budget' = budget - 1
    /\ cur' = key
    /\ reqLog' = <<>>
    /\ IF CacheHit(key)
       THEN /\ pc' = "idle"
            /\ ret' = [kind |-> "value", key |-> key, hit |-> TRUE,
                       val |-> cache[key], exc |-> ""]
            /\ loc' = NoLoc
       ELSE /\ pc' = entry
            /\ ret' = NoRet
            /\ loc' = [NoLoc EXCEPT !.i = i0]
    /\ UNCHANGED <<server, cache, runs, lastErr>>
    /\ UNCHANGED cleanVars

\* an exception that leaves the body while the wrapper stores what was computed
RaiseStoring(e) ==
    /\ pc' = "idle"
    /\ ret' = [kind |-> "raise", key |-> cur, hit |-> FALSE, val |-> NoVal, exc |-> e]
    /\ cache' = Stored(cur, Val(NoDf, loc.counts, loc.url_top))
    /\ UNCHANGED <<runs, loc>>

\* an exception leaves the body and the wrapper: nothing is stored
Raise(e) ==
    /\ pc' = "idle"
    /\ ret' = [kind |-> "raise", key |-> cur, hit |-> FALSE, val |-> NoVal, exc |-> e]
    /\ UNCHANGED <<cache, runs, loc>>

\* the body returns: the wrapper stores the value and hands it to the caller
Return(val) ==
    /\ pc' = "idle"
    /\ ret' = [kind |-> "value", key |-> cur, hit |-> FALSE, val |-> val, exc |-> ""]
    /\ cache' = Stored(cur, val)
    /\ runs' = Bump(cur)
    /\ UNCHANGED loc

\* pd.read_csv(url) fails
FetchFails == \E e \in Errors : Raise(e) /\ lastErr' = e

\* int(x) of a float: truncation towards zero
IntOf(v) == IF v.n >= 0 THEN v.n \div 100 ELSE 0 - ((0 - v.n) \div 100)

\* one round of a counting loop: results[i] = int(pd.to_numeric(cnt, errors="coerce"))
CountRound(req, last) ==
    \E txt \in CountReplies(req) :
        LET v == ToNumeric(Str(txt))
            counts == (loc.i :> IntOf(v)) @@ loc.counts
        IN  IF v.k # "num" THEN Raise("ValueError")
            ELSE IF loc.i = last THEN Return(Val(NoDf, counts, ""))
            ELSE /\ loc' = [loc EXCEPT !.i = loc.i + 1, !.counts = counts]
                 /\ UNCHANGED <<pc, ret, cache, runs>>

YearChoices == {START_YEAR, END_YEAR}
TopNChoice == 10
MapLimitChoice == 20000
TrendTopN == 5

CallYearly == Cached(MakeKey("load_yearly_counts", <<>>), "yearly", START_YEAR)

YearlyStep ==
    /\ pc = "yearly"
    /\ LET req == Request(YearlyParams(loc.i))
       IN  /\ reqLog' = Append(reqLog, req)
           /\ \/ FetchFails
              \/ CountRound(req, END_YEAR) /\ UNCHANGED lastErr
    /\ UNCHANGED <<server, cur, budget>>
    /\ UNCHANGED cleanVars

CallMonthly ==
    \E year \in YearChoices : Cached(MakeKey("load_monthly_counts", <<year>>), "monthly", 1)

MonthlyStep ==
    /\ pc = "monthly"
    /\ LET req == Request(MonthlyParams(cur[2][1], loc.i))
       IN  /\ reqLog' = Append(reqLog, req)
           /\ \/ FetchFails
              \/ CountRound(req, 12) /\ UNCHANGED lastErr
    /\ UNCHANGED <<server, cur, budget>>
    /\ UNCHANGED cleanVars

CallTop ==
    \E year \in YearChoices :
        Cached(MakeKey("load_top_types", <<year, TopNChoice>>), "top", 0)

TopStep ==
    /\ pc = "top"
    /\ LET req == Request(TopParams(cur[2][1], cur[2][2]))
           top == TypesReply(req)
           df  == SetCol(top, "cnt", [i \in Rows(top) |-> ToNumeric(top.rows[i]["cnt"])])
       IN  /\ reqLog' = Append(reqLog, req)
           /\ \/ FetchFails
              \/ Return(Val(df, <<>>, req.url)) /\ UNCHANGED lastErr
    /\ UNCHANGED <<server, cur, budget>>
    /\ UNCHANGED cleanVars

CallMap ==
    \E year \in YearChoices :
        Cached(MakeKey("load_map_sample", <<year, MapLimitChoice>>), "map", 0)

MapStep ==
    /\ pc = "map"
    /\ LET req == Request(MapParams(cur[2][1], cur[2][2]))
       IN  /\ reqLog' = Append(reqLog, req)
           /\ \/ FetchFails
              \/ Return(Val(MapPost(PointsReply(req)), <<>>, req.url)) /\ UNCHANGED lastErr
    /\ UNCHANGED <<server, cur, budget>>
    /\ UNCHANGED cleanVars

CallTrend ==
    Cached(MakeKey("load_year_type_counts", <<START_YEAR, END_YEAR, TrendTopN>>),
           "trend_top", 0)

\* top_df["primary_type"].dropna().tolist()
RECURSIVE TypeList(_)
TypeList(rows) ==
    IF rows = <<>> THEN <<>>
    ELSE (IF IsNull(Head(rows)["primary_type"]) THEN <<>>
          ELSE <<Head(rows)["primary_type"].s>>) \o TypeList(Tail(rows))

\* the test for an empty category list left out
NoTypesNever(top_types) == FALSE

NoTypes(top_types) == Len(top_types) = 0

TrendTopStep ==
    /\ pc = "trend_top"
    /\ LET req == Request(TrendTopParams(cur[2][1], cur[2][2], cur[2][3]))
           top_types == TypeList(TypesReply(req).rows)
       IN  /\ reqLog' = Append(reqLog, req)
           /\ \/ FetchFails
              \/ /\ IF NoTypes(top_types) THEN Return(Val(NoDf, <<>>, req.url))
                    ELSE /\ pc' = "trend"
                         /\ loc' = [loc EXCEPT !.top_types = top_types, !.url_top = req.url]
                         /\ UNCHANGED <<ret, cache, runs>>
                 /\ UNCHANGED lastErr
    /\ UNCHANGED <<server, cur, budget>>
    /\ UNCHANGED cleanVars

\* pd.to_numeric(..., errors="coerce").astype("Int64")
ToInt64(c) == LET v == ToNumeric(c) IN IF v.k = "num" THEN IntC(v.n \div 100) ELSE NA

TrendPost(df) ==
    LET y == SetCol(df, "year", [i \in Rows(df) |-> ToInt64(df.rows[i]["year"])])
        c == SetCol(y, "cnt", [i \in Rows(df) |-> ToNumeric(df.rows[i]["cnt"])])
    IN  DropNa(c, {"year", "primary_type", "cnt"})

TrendStep ==
    /\ pc = "trend"
    /\ LET req == Request(TrendParams(cur[2][1], cur[2][2], loc.top_types))
       IN  /\ reqLog' = Append(reqLog, req)
           /\ \/ FetchFails
              \/ Return(Val(TrendPost(TrendReply(req)), <<>>, req.url)) /\ UNCHANGED lastErr
    /\ UNCHANGED <<server, cur, budget>>
    /\ UNCHANGED cleanVars

(***************************************************************************)
(* Sessions                                                                *)
(***************************************************************************)
MaxCalls == 2
MaxStamps == 2
MaxTypeRows == 2
MaxTrendRows == 1
MaxQueryCalls == 1

CleanOff ==
    /\ pandas \in PandasMajors
    /\ raw = NoDf /\ out = NoDf /\ out2 = NoDf /\ mapOut = [exc |-> "", df |-> NoDf]
    /\ cpc = "off"

TypeRow(t, n) == [c \in {"primary_type", "cnt"} |-> IF c = "cnt" THEN n ELSE t]
TrendRow(y, t, n) ==
    [c \in {"year", "primary_type", "cnt"} |->
        IF c = "year" THEN y ELSE IF c = "cnt" THEN n ELSE t]

PointCols == {"date", "primary_type", "latitude", "longitude"}

Stamps ==
    {"2017-12-31T23:59:59.999", "2018-01-01T00:00:00.000", "2018-01-31T23:59:59.500",
     "2018-12-31T23:59:59.000", "2018-12-31T23:59:59.500", "2019-01-01T00:00:00.000",
     "2024-12-31T23:59:59.500"}

TypeRows ==
    {TypeRow(Str("THEFT"), Str("12")), TypeRow(Str("O'HARE"), Str("7")),
     TypeRow(NaN, Str("3")), TypeRow(Str("BATTERY"), Str("abc"))}

TrendRows ==
    {TrendRow(Str("2018"), Str("THEFT"), Str("12")), TrendRow(Str("x"), Str("THEFT"), Str("5")),
     TrendRow(Str("2019"), NaN, Str("4")), TrendRow(Str("2019"), Str("THEFT"), Str("abc"))}

SeqsUpTo(S, n) == UNION {[1..k -> S] : k \in 0..n}

\* a session of the dashboard: every loader, against one of two servers
SessionServers ==
    {[stamps |-> {"2018-01-01T00:00:00.000", "2018-12-31T23:59:59.000"},
      types  |-> <<TypeRow(Str("THEFT"), Str("12"))>>,
      trend  |-> <<TrendRow(Str("2018"), Str("THEFT"), Str("12"))>>,
      points |-> <<[c \in PointCols |-> MkRow(IntC(1), GoodDate, Theft, LatIn, LonIn)[c]]>>],
     [stamps |-> {},
      types  |-> <<TypeRow(NaN, Str("3"))>>,
      trend  |-> <<>>,
      points |-> <<>>]}

Init == CleanOff /\ \E sv \in SessionServers : SessionStart(MaxCalls, sv)

Next ==
    \/ CallYearly \/ YearlyStep
    \/ CallMonthly \/ MonthlyStep
    \/ CallTop \/ TopStep
    \/ CallMap \/ MapStep
    \/ CallTrend \/ TrendTopStep \/ TrendStep

Spec == Init /\ [][Next]_vars

\* the two counting loaders against every small set of timestamped rows
InitCounts ==
    /\ CleanOff
    /\ \E st \in {S \in SUBSET Stamps : Cardinality(S) <= MaxStamps} :
           SessionStart(MaxCalls, [NoServer EXCEPT !.stamps = st])

NextCounts == CallYearly \/ YearlyStep \/ CallMonthly \/ MonthlyStep

SpecCounts == InitCounts /\ [][NextCounts]_vars

\* the two grouped loaders against every small reply table
InitQuery ==
    /\ CleanOff
    /\ \E ty \in SeqsUpTo(TypeRows, MaxTypeRows), tr \in SeqsUpTo(TrendRows, MaxTrendRows) :
           SessionStart(MaxQueryCalls, [NoServer EXCEPT !.types = ty, !.trend = tr])

NextQuery == CallTop \/ TopStep \/ CallTrend \/ TrendTopStep \/ TrendStep

SpecQuery == InitQuery /\ [][NextQuery]_vars

(***************************************************************************)
(* Properties of the cached loaders                                        *)
(***************************************************************************)
Trend == "load_year_type_counts"

NoRepeat(sq) == \A i, j \in 1..Len(sq) : i # j => sq[i] # sq[j]

\* C1: a loader called again with the arguments of an earlier successful call
\* fetches nothing and returns the stored value; per key the body runs to its
\* return at most once; a key's stored value is never replaced.
C1_CacheOnce ==
    /\ [](/\ \A k \in DOMAIN runs : runs[k] <= 1
          /\ DOMAIN runs = DOMAIN cache
          /\ ret.hit => /\ ret.kind = "value" /\ reqLog = <<>> /\ pc = "idle"
                        /\ ret.val = cache[ret.key]
          /\ (ret.kind = "value" /\ ~ret.hit) => cache[ret.key] = ret.val)
    /\ [][/\ \A k \in DOMAIN cache : k \in DOMAIN cache' /\ cache'[k] = cache[k]
          /\ (budget' < budget /\ cur' \in DOMAIN cache) =>
                (pc' = "idle" /\ ret'.hit /\ reqLog' = <<>>)]_vars

\* the twelve monthly counts of a year are returned again without a request
C1_Witness ==
    /\ ret.hit /\ ret.key[1] = "load_monthly_counts"
    /\ DOMAIN ret.val.counts = 1..12
    /\ reqLog = <<>> /\ runs[ret.key] = 1

\* C8: no request is repeated within an invocation; once a fetch fails the
\* invocation is over, the caller gets the fetcher's error and no value, nothing
\* is stored under the key, and a later call with the same arguments runs the
\* body again.
C8_FailureSurfaces ==
    /\ [](/\ NoRepeat(reqLog)
          /\ ret.kind = "raise" =>
                /\ pc = "idle"
                /\ ret.val = NoVal
                /\ ret.key \notin DOMAIN cache
                /\ ret.exc # "ValueError" => ret.exc \in Errors /\ ret.exc = lastErr)
    /\ [][/\ (ret'.kind = "raise" /\ ret.kind # "raise") =>
                (cache' = cache /\ Len(reqLog') = Len(reqLog) + 1)
          /\ (ret.kind = "raise" /\ budget' < budget /\ cur' = ret.key) =>
                (pc' # "idle" /\ ~ret'.hit)]_vars

\* a fetch fails in the second round of a counting loop, after the first round
\* put a count into the partial result
C8_Witness ==
    /\ ret.kind = "raise" /\ ret.exc \in Errors
    /\ Len(reqLog) = 2 /\ loc.counts # <<>>

\* the non-missing categories of the server's type table
ServerTypes == {i \in 1..Len(server.types) : ~IsNull(server.types[i]["primary_type"])}

\* C6: the trend request of load_year_type_counts is issued only after the
\* first reply gave at least one non-missing category; when it gave none the
\* loader returns an empty table after that single request.
C6_NoSecondQueryWhenEmpty ==
    (Len(cur) = 2 /\ cur[1] = Trend) =>
        /\ (pc = "trend" \/ Len(reqLog) >= 2) => ServerTypes # {}
        /\ (ret.kind = "value" /\ ~ret.hit /\ ServerTypes = {}) =>
                /\ ret.val.df = NoDf
                /\ Len(reqLog) = 1
                /\ ~Contains(Param(reqLog[1].params, "$select"), year_expr)

\* the first reply has rows, but none with a category
C6_Witness ==
    /\ Len(cur) = 2 /\ cur[1] = Trend
    /\ ret.kind = "value" /\ ~ret.hit
    /\ Len(server.types) >= 1 /\ ServerTypes = {}
    /\ Len(reqLog) = 1

\* requests whose $select gives year_expr the alias
Aliasing(req) ==
    /\ HasParam(req.params, "$select") /\ HasParam(req.params, "$group")
    /\ Contains(Param(req.params, "$select"), " as " \o YearAlias)

\* C10: the $group clause of the trend query names date_extract_y(date) and
\* never contains the alias year that its $select clause assigns.
C10_GroupByExpression ==
    \A i \in 1..Len(reqLog) :
        Aliasing(reqLog[i]) =>
            /\ Contains(Param(reqLog[i].params, "$group"), "date_extract_y(date)")
            /\ ~Contains(Param(reqLog[i].params, "$group"), YearAlias)

\* the trend query was built for two categories
C10_Witness ==
    /\ Len(reqLog) = 2 /\ Aliasing(reqLog[2])
    /\ Len(loc.top_types) = 2

RECURSIVE Marks(_)
Marks(n) == IF n = 0 THEN "" ELSE "?" \o (IF n > 1 THEN ", " ELSE "") \o Marks(n - 1)

\* C9: the IN (...) list of the trend query's $where reads back as exactly the
\* categories of the first reply, each one a terminated string literal, and the
\* predicate keeps its shape.
C9_QuotedLiterals ==
    \A i \in 1..Len(reqLog) :
        Aliasing(reqLog[i]) =>
            LET sc == Scan(Param(reqLog[i].params, "$where"))
            IN  /\ sc.ok
                /\ sc.lits = <<Fmt(cur[2][1]) \o "-01-01T00:00:00",
                               Fmt(cur[2][2]) \o "-12-31T23:59:59">> \o loc.top_types
                /\ sc.skel = "date between ? and ? AND primary_type IN ("
                             \o Marks(Len(loc.top_types)) \o ")"

IsCount(c) == c.k = "num" /\ c.n >= 0 /\ c.n % 100 = 0

\* C7: no row of a returned table has a missing count, and every returned
\* count is a non-negative integer.
C7_CountsPresent ==
    ret.kind = "value" =>
        /\ "cnt" \in ret.val.df.cols =>
                \A j \in 1..Len(ret.val.df.rows) : IsCount(ret.val.df.rows[j]["cnt"])
        /\ \A y \in DOMAIN ret.val.counts : ret.val.counts[y] >= 0

RECURSIVE SumTo(_, _)
SumTo(f, n) == IF n = 0 THEN 0 ELSE f[n] + SumTo(f, n - 1)

\* C5: the twelve monthly counts of a year add up to the yearly count of it.
C5_MonthsSumToYear ==
    \A y \in YearChoices :
        LET ky == MakeKey("load_yearly_counts", <<>>)
            km == MakeKey("load_monthly_counts", <<y>>)
        IN  (ky \in DOMAIN cache /\ km \in DOMAIN cache) =>
                SumTo(cache[km].counts, 12) = cache[ky].counts[y]

====
